---- MODULE Spec2Model ----
(***************************************************************************)
(* Tosshin scraper: scrape -> read_keywords -> scrape_keyword_data ->      *)
(* fetch_data / take_screenshot / write_data_row -> save_workbook.         *)
(* Texts are sequences of one-character strings.                           *)
(***************************************************************************)
EXTENDS Integers, Sequences, FiniteSets, TLC

VARIABLES
    pc,                 \* position of the single thread inside scrape
    keywords,           \* argument of scrape / read_keywords
    entry,              \* SCREENSHOTS_LIST and the files on disk when scrape was entered
    idx,                \* position of the for loop of read_keywords (1-based)
    driver,             \* "none" | "live" | "quit"
    quit_calls,         \* number of driver.quit() calls
    exc,                \* exception in flight ("none" when there is none)
    origin,             \* where the last exception that left a function was raised
    nav_log,            \* URLs handed to driver.get, in order
    page,               \* page currently loaded in the driver
    data,               \* last value returned by fetch_data
    shot_calls,         \* paths handed to Utils.take_screenshot, in order
    files,              \* screenshot files on disk, by path
    SCREENSHOTS_LIST,   \* module-level list of tosshin_data_extraction
    workbook,           \* "none" | "open" | "closed"
    row_count,          \* MyTosshinExcel.row_count
    cells,              \* worksheet cells: <<row, col>> -> cell
    matched,            \* keywords whose record reached write_data_row, in order
    save_calls,         \* number of save_workbook() calls
    close_attempts,     \* number of workbook.close() attempts
    prompts,            \* number of input() prompts answered
    log                 \* numbers of warning / error lines logged (info lines
                        \* are not counted)

vars == <<pc, keywords, entry, idx, driver, quit_calls, exc, origin, nav_log, page, data,
          shot_calls, files, SCREENSHOTS_LIST, workbook, row_count, cells,
          matched, save_calls, close_attempts, prompts, log>>

----------------------------------------------------------------------------
(* Bounds *)

MaxKeywords == 2

MaxSaveFails == 2

MaxTextLen == 4

----------------------------------------------------------------------------
(* Texts *)

\* the characters str.strip() and str.split() treat as whitespace
\* (str.isspace); those without a TLA+ escape are named by code point
Whitespace ==
    {" ", "\t", "\n", "\r", "\f", "U+000B", "U+001C", "U+001D", "U+001E", "U+001F",
     "U+0085", "U+00A0", "U+1680", "U+2000", "U+2001", "U+2002", "U+2003",
     "U+2004", "U+2005", "U+2006", "U+2007", "U+2008", "U+2009", "U+200A",
     "U+2028", "U+2029", "U+202F", "U+205F", "U+3000"}

\* the alphabet cell texts are drawn from
Chars == {"a", "b", " ", "\t", "\n", "U+3000"}

RECURSIVE TextsOfLen(_)
TextsOfLen(n) ==
    IF n = 0 THEN {<<>>}
    ELSE {<<c>> \o t : c \in Chars, t \in TextsOfLen(n - 1)}

Texts == UNION {TextsOfLen(n) : n \in 0..MaxTextLen}

\* str.strip(): drops leading and trailing whitespace
RECURSIVE lstrip(_)
lstrip(s) ==
    IF s = <<>> THEN s
    ELSE IF Head(s) \in Whitespace THEN lstrip(Tail(s)) ELSE s

RECURSIVE rstrip(_)
rstrip(s) ==
    IF s = <<>> THEN s
    ELSE IF s[Len(s)] \in Whitespace THEN rstrip(SubSeq(s, 1, Len(s) - 1)) ELSE s

strip(s) == rstrip(lstrip(s))

\* index of the first whitespace character of s, Len(s) + 1 when there is none
RECURSIVE WordEnd(_)
WordEnd(s) ==
    IF s = <<>> THEN 1
    ELSE IF Head(s) \in Whitespace THEN 1 ELSE 1 + WordEnd(Tail(s))

\* str.split() with no separator: the maximal runs of non-whitespace
RECURSIVE split(_)
split(s) ==
    LET t == lstrip(s) IN
    IF t = <<>> THEN <<>>
    ELSE LET e == WordEnd(t) IN
         <<SubSeq(t, 1, e - 1)>> \o split(SubSeq(t, e, Len(t)))

\* sep.join(parts)
RECURSIVE join(_, _)
join(sep, parts) ==
    IF parts = <<>> THEN <<>>
    ELSE IF Len(parts) = 1 THEN parts[1]
    ELSE parts[1] \o sep \o join(sep, Tail(parts))

----------------------------------------------------------------------------
(* Inputs and environment *)

\* entries a keyword list is drawn from: whitespace-only, padded, and one
\* that starts with the path separator
KeywordEntries == {<<"\n", " ">>, <<" ", "a", "\n">>, <<"/", "a">>}

RECURSIVE ListsOfLen(_)
ListsOfLen(n) ==
    IF n = 0 THEN {<<>>}
    ELSE {<<k>> \o l : k \in KeywordEntries, l \in ListsOfLen(n - 1)}

\* lists with an entry that is the empty string
EmptyEntryLists == {<<<<>>>>, <<<<>>, <<"a">>>>, <<<<"a">>, <<>>>>}

KeywordLists == UNION {ListsOfLen(n) : n \in 0..MaxKeywords} \cup EmptyEntryLists

\* a result page as fetch_data sees it: the "nothing found" marker, the first
\* result table, its first body row, and the td children of that row
Page(nothing, table, row, tds) ==
    [nothing |-> nothing, table |-> table, row |-> row, tds |-> tds]

BlankPage == Page(FALSE, FALSE, FALSE, <<>>)

WellFormed(maker, weight, price) ==
    Page(FALSE, TRUE, TRUE, <<<<"1">>, maker, weight, price>>)

SampleWeight == <<" ", "2", "k", "g">>

SamplePrice == <<"9", "0", "\t">>

MakerSamples == {<<"U+3000", "a", " ", "\t", "b", "\n">>}

SamplePages ==
    {Page(TRUE, FALSE, FALSE, <<>>),
     Page(FALSE, FALSE, FALSE, <<>>),
     Page(FALSE, TRUE, FALSE, <<>>),
     Page(FALSE, TRUE, TRUE, <<<<"1">>, <<"a">>, SampleWeight>>)}
    \cup {WellFormed(m, SampleWeight, SamplePrice) : m \in MakerSamples}

TextPages == {WellFormed(m, SampleWeight, SamplePrice) : m \in Texts}

CloseFailures == {"EACCES", "OSError", "Exception"}

\* what input() can raise instead of returning
PromptFailures == {"EOFError", "KeyboardInterrupt"}

\* what initialize_driver, driver.get and Utils.write_data can raise
InitFailures == {"DriverInitError", "KeyboardInterrupt"}

NavFailures == {"WebDriverException", "KeyboardInterrupt"}

WriteFailures == {"WriteError", "KeyboardInterrupt"}

\* what MyTosshinExcel(output_folder), Utils.create_subfolder,
\* Utils.take_screenshot, worksheet.autofit and driver.quit can raise
WorkbookFailures == {"WorkbookError", "KeyboardInterrupt"}

FolderFailures == {"FolderError", "KeyboardInterrupt"}

ShotFailures == {"ScreenshotError", "KeyboardInterrupt"}

SaveFailures == {"AutofitError", "KeyboardInterrupt"}

QuitFailures == {"QuitError", "KeyboardInterrupt"}

\* the log after a logging.warning / logging.error call that returned
Bump(lg, level) == [lg EXCEPT ![level] = @ + 1]

\* the log after such a call was interrupted: the line was emitted or not
CutLog(lg, level) == {lg, Bump(lg, level)}

\* is e caught by "except Exception" (KeyboardInterrupt is a BaseException)
IsException(e) == e # "KeyboardInterrupt"

\* where an exception that leaves read_keywords takes scrape: the except
\* clause when "except Exception" catches it, else straight to finally
Handler(e) == IF IsException(e) THEN "except" ELSE "finally"

----------------------------------------------------------------------------
(* tosshin_xlsx_writer *)

\* TosshinData: the column of each member that has one
COL_MAKER == 0
COL_KEYWORD == 1
COL_WEIGHT == 2
COL_PRICE == 3

Column(key) ==
    CASE key = "MAKER" -> COL_MAKER
      [] key = "KEYWORD" -> COL_KEYWORD
      [] key = "WEIGHT" -> COL_WEIGHT
      [] key = "PRICE" -> COL_PRICE

Header(key) ==
    CASE key = "MAKER" -> "Maker"
      [] key = "KEYWORD" -> "Keyword"
      [] key = "WEIGHT" -> "Weight"
      [] key = "PRICE" -> "Price"

NoUrl == <<"no url">>

NoCells == [p \in {} |-> NoUrl]

Put(cs, r, c, v) ==
    [p \in DOMAIN cs \cup {<<r, c>>} |-> IF p = <<r, c>> THEN v ELSE cs[p]]

\* Utils.get_enum_headers_row(TosshinData): the header row
\* {Maker, Keyword, Weight, Price, URL}: the header of each member that has
\* a column, then the URL header
get_enum_headers_row ==
    <<Header("MAKER"), Header("KEYWORD"), Header("WEIGHT"), Header("PRICE"), "URL">>

\* worksheet.write_row(row, col, values): values[i] at column col + i - 1
RECURSIVE write_row(_, _, _, _)
write_row(cs, r, c, values) ==
    IF values = <<>> THEN cs
    ELSE write_row(Put(cs, r, c, [header |-> Head(values)]), r, c + 1, Tail(values))

\* add_headers without "self.row_count += 1"
add_headers_NoCount(cs, rc) == <<write_row(cs, 0, 0, get_enum_headers_row), rc>>

\* MyTosshinExcel.add_headers: the new <<cells, row_count>>
add_headers(cs, rc) == <<write_row(cs, 0, 0, get_enum_headers_row), rc + 1>>

\* __init__ that starts the row count at 1 and writes no header
NewWorkbook_NoHeaders == <<NoCells, 1>>

\* MyTosshinExcel.__init__: row_count = 0, then add_headers
NewWorkbook == add_headers(NoCells, 0)

\* (data_key, url_key) pairs of write_data_row
fields_to_write == <<<<"MAKER", "URL">>, <<"KEYWORD", "None">>, <<"WEIGHT", "None">>, <<"PRICE", "None">>>>

\* Utils.write_data: one cell, with its hyperlink and its currency format
write_data(cs, r, c, d, data_key, url_key, is_currency) ==
    Put(cs, r, c, [value |-> d[data_key],
                   url |-> IF url_key = "None" THEN NoUrl ELSE d[url_key],
                   currency |-> is_currency])

\* the loop of write_data_row over the first n entries of fields_to_write
RECURSIVE WriteFields(_, _, _, _)
WriteFields(cs, r, d, n) ==
    IF n = 0 THEN cs
    ELSE LET f == fields_to_write[n] IN
         write_data(WriteFields(cs, r, d, n - 1), r, Column(f[1]), d,
                    f[1], f[2], f[1] = "PRICE")

\* write_data_row that writes at row 1 instead of self.row_count
write_data_row_SameRow(cs, rc, d, stop) ==
    IF stop = 0
    THEN [cells |-> WriteFields(cs, 1, d, Len(fields_to_write)),
          row_count |-> rc + 1, raised |-> FALSE]
    ELSE IF stop <= Len(fields_to_write) + 1
    THEN [cells |-> WriteFields(cs, 1, d, stop - 1),
          row_count |-> rc, raised |-> TRUE]
    ELSE [cells |-> WriteFields(cs, 1, d, Len(fields_to_write)),
          row_count |-> rc + 1, raised |-> TRUE]

\* MyTosshinExcel.write_data_row, as the writer's new state and whether an
\* exception leaves the method.
\*   stop = 0: every field is written, the row count grows, it returns;
\*   stop = i in 1..4: an exception is raised with i - 1 fields written
\*     (by the i-th Utils.write_data, or an interrupt before it);
\*   stop = 5: an exception is raised with all four fields written and the
\*     row count not yet incremented (before line 170);
\*   stop = 6: an interrupt after line 170, before the method returns
write_data_row(cs, rc, d, stop) ==
    IF stop = 0
    THEN [cells |-> WriteFields(cs, rc, d, Len(fields_to_write)),
          row_count |-> rc + 1, raised |-> FALSE]
    ELSE IF stop <= Len(fields_to_write) + 1
    THEN [cells |-> WriteFields(cs, rc, d, stop - 1),
          row_count |-> rc, raised |-> TRUE]
    ELSE [cells |-> WriteFields(cs, rc, d, Len(fields_to_write)),
          row_count |-> rc + 1, raised |-> TRUE]

\* the values of stop
WriteStops == 0..(Len(fields_to_write) + 2)

----------------------------------------------------------------------------
(* tosshin_data_extraction *)

None == [none |-> TRUE]

\* Utils.build_tosshin_url
build_tosshin_url(keyword) == <<"tosshin?q=">> \o keyword

\* os.path.join(a, b) on POSIX: b alone when it is absolute
path_join(a, b) == IF b # <<>> /\ b[1] = "/" THEN b ELSE a \o <<"/">> \o b

\* Utils.create_subfolder(output_folder, "Tosshin Screenshots")
screenshot_folder_path == <<"Tosshin Screenshots">>

\* a screenshot path without the keyword
screenshot_path_NoKeyword(keyword) ==
    path_join(screenshot_folder_path, <<" screenshot.png">>)

\* os.path.join(screenshot_folder_path, f"{keyword} screenshot.png")
screenshot_path(keyword) ==
    path_join(screenshot_folder_path, keyword \o <<" screenshot.png">>)

\* Utils.take_screenshot(path, driver): the files on disk after a capture
\* that wrote the file at path, or did not
take_screenshot(fs, path, written) == IF written THEN fs \cup {path} ELSE fs

\* how a take_screenshot call that returns can end: True with the file
\* written; False, with or without a file left behind
ShotOutcomes ==
    {[result |-> TRUE, written |-> TRUE],
     [result |-> FALSE, written |-> TRUE],
     [result |-> FALSE, written |-> FALSE]}

\* does a find call raise somewhere in fetch_data (a find_elements call that
\* raises at line 107 has the outcome of the missing table)
ExtractionFails(pg) == ~pg.table \/ ~pg.row \/ Len(pg.tds) < 4

\* the maker without the " ".join(maker.split()) line
MakerOf_StripOnly(text) == strip(text)

\* maker = td.text.strip(); maker = " ".join(maker.split())
MakerOf(text) == join(<<" ">>, split(strip(text)))

fetch_data(pg, keyword) ==
    IF pg.nothing THEN None
    ELSE IF ExtractionFails(pg) THEN None
    ELSE [KEYWORD |-> keyword,
          MAKER |-> MakerOf(pg.tds[2]),
          WEIGHT |-> strip(pg.tds[3]),
          PRICE |-> strip(pg.tds[4])]

\* what fetch_data logs: a warning for the marker, an error for an exception
FetchLog(pg, lg) ==
    IF pg.nothing THEN [lg EXCEPT !.warning = @ + 1]
    ELSE IF ExtractionFails(pg) THEN [lg EXCEPT !.error = @ + 1]
    ELSE lg

\* data[TosshinData.URL] = url
WithUrl(d, url) == [KEYWORD |-> d.KEYWORD, MAKER |-> d.MAKER, WEIGHT |-> d.WEIGHT,
                    PRICE |-> d.PRICE, URL |-> url]

\* an "if data:" statement whose else branch leaves a blank row
WriteIfData_BlankRow(cs, rc, d, url, stop) ==
    IF d = None
    THEN [cells |-> cs, row_count |-> rc + 1, raised |-> FALSE]
    ELSE write_data_row(cs, rc, WithUrl(d, url), stop)

\* the "if data:" statement of scrape_keyword_data, as the writer's new state:
\* a record is given its URL and written, None leaves the worksheet alone
WriteIfData(cs, rc, d, url, stop) ==
    IF d = None
    THEN [cells |-> cs, row_count |-> rc, raised |-> FALSE]
    ELSE write_data_row(cs, rc, WithUrl(d, url), stop)

\* the entry the loop is at, not stripped
CurrentKeyword_NoStrip == keywords[idx]

\* search_keyword = search_keyword.strip(), for the entry the loop is at
CurrentKeyword == strip(keywords[idx])

\* the module-level SCREENSHOTS_LIST and the files on disk when scrape is
\* entered: a first call, and a later call in the same process (the list is
\* never cleared) over a folder that also holds the file of an earlier
\* process
Entries ==
    {[shots |-> <<>>, files |-> {}],
     [shots |-> <<screenshot_path(<<"a">>)>>,
      files |-> {screenshot_path(<<"a">>), screenshot_path(<<"b">>)}]}

----------------------------------------------------------------------------
(* The state machine of one call scrape(keywords, output_folder).          *)
(* An action is one stretch of the code between two positions of pc, with  *)
(* one branch per way the stretch can end: it runs through, a call raises, *)
(* or a KeyboardInterrupt arrives at one of its statements.                *)

Init ==
    /\ pc = "scrape"
    /\ keywords \in KeywordLists
    /\ entry \in Entries
    /\ idx = 0
    /\ driver = "none"
    /\ quit_calls = 0
    /\ exc = "none"
    /\ origin = "none"
    /\ nav_log = <<>>
    /\ page = BlankPage
    /\ data = None
    /\ shot_calls = <<>>
    /\ files = entry.files
    /\ SCREENSHOTS_LIST = entry.shots
    /\ workbook = "none"
    /\ row_count = 0
    /\ cells = NoCells
    /\ matched = <<>>
    /\ save_calls = 0
    /\ close_attempts = 0
    /\ prompts = 0
    /\ log = [warning |-> 0, error |-> 0]

\* an exception e raised in function o inside the try block of scrape
Raise(e, o) ==
    /\ exc' = e
    /\ origin' = o
    /\ pc' = Handler(e)

\* scrape, lines 21-29: logging, initialize_driver, entry of the try block
\* and its first logging call. Before the try block an exception leaves
\* scrape at once: with no driver when it comes from line 22 or from
\* initialize_driver, with a live driver when an interrupt falls between
\* line 25 and line 27. An interrupt at line 29 goes to the finally clause.
InitializeDriver ==
    /\ pc = "scrape"
    /\ \/ /\ driver' = "live"
          /\ pc' = "read_keywords"
          /\ UNCHANGED <<exc, origin>>
       \/ /\ driver' = driver
          /\ pc' = "done"
          /\ exc' = "KeyboardInterrupt"
          /\ origin' = "scrape"
       \/ /\ driver' = driver
          /\ pc' = "done"
          /\ exc' \in InitFailures
          /\ origin' = "initialize_driver"
       \/ /\ driver' = "live"
          /\ pc' = "done"
          /\ exc' = "KeyboardInterrupt"
          /\ origin' = "scrape"
       \/ /\ driver' = "live"
          /\ Raise("KeyboardInterrupt", "scrape")
    /\ UNCHANGED <<keywords, entry, idx, quit_calls, nav_log, page, data, shot_calls,
                   files, SCREENSHOTS_LIST, workbook, row_count, cells, matched,
                   save_calls, close_attempts, prompts, log>>

\* read_keywords on an empty list, lines 27-29, then line 32 of scrape: the
\* warning and the return; an interrupt in the warning leaves read_keywords,
\* one in the logging of line 32 is raised in scrape
ReadKeywordsEmpty ==
    /\ pc = "read_keywords"
    /\ keywords = <<>>
    /\ \/ /\ log' = Bump(log, "warning")
          /\ pc' = "finally"
          /\ UNCHANGED <<exc, origin>>
       \/ /\ log' \in CutLog(log, "warning")
          /\ Raise("KeyboardInterrupt", "read_keywords")
       \/ /\ log' = Bump(log, "warning")
          /\ Raise("KeyboardInterrupt", "scrape")
    /\ UNCHANGED <<keywords, entry, idx, driver, quit_calls, nav_log, page, data,
                   shot_calls, files, SCREENSHOTS_LIST, workbook, row_count,
                   cells, matched, save_calls, close_attempts, prompts>>

\* read_keywords on a non-empty list, lines 31-37: the workbook is built with
\* its header row and the screenshot folder is created. An exception inside
\* MyTosshinExcel(...) (or an interrupt at line 31) leaves no workbook; one
\* of Utils.create_subfolder leaves the workbook built and the loop not
\* entered.
ReadKeywordsBegin ==
    /\ pc = "read_keywords"
    /\ keywords # <<>>
    /\ \/ /\ workbook' = "open"
          /\ cells' = NewWorkbook[1]
          /\ row_count' = NewWorkbook[2]
          /\ idx' = 1
          /\ pc' = "loop"
          /\ UNCHANGED <<exc, origin>>
       \/ /\ \E e \in WorkbookFailures : Raise(e, "read_keywords")
          /\ UNCHANGED <<workbook, cells, row_count, idx>>
       \/ /\ workbook' = "open"
          /\ cells' = NewWorkbook[1]
          /\ row_count' = NewWorkbook[2]
          /\ idx' = idx
          /\ \E e \in FolderFailures : Raise(e, "read_keywords")
    /\ UNCHANGED <<keywords, entry, driver, quit_calls, nav_log, page, data,
                   shot_calls, files, SCREENSHOTS_LIST, matched, save_calls,
                   close_attempts, prompts, log>>

\* one loop iteration on an entry that is empty after strip(), lines 39-41
\* and 50: the warning; an interrupt in it leaves read_keywords
SkipEmpty ==
    /\ pc = "loop"
    /\ idx <= Len(keywords)
    /\ CurrentKeyword = <<>>
    /\ \/ /\ log' = Bump(log, "warning")
          /\ idx' = idx + 1
          /\ UNCHANGED <<pc, exc, origin>>
       \/ /\ log' \in CutLog(log, "warning")
          /\ idx' = idx
          /\ Raise("KeyboardInterrupt", "read_keywords")
    /\ UNCHANGED <<keywords, entry, driver, quit_calls, nav_log, page, data,
                   shot_calls, files, SCREENSHOTS_LIST, workbook, row_count,
                   cells, matched, save_calls, close_attempts, prompts>>

\* one loop iteration on a non-empty keyword, interrupted before driver.get
\* is called: in the logging of line 42 or line 76
KeywordInterrupted ==
    /\ pc = "loop"
    /\ idx <= Len(keywords)
    /\ CurrentKeyword # <<>>
    /\ Raise("KeyboardInterrupt", "read_keywords")
    /\ UNCHANGED <<keywords, entry, idx, driver, quit_calls, nav_log, page, data,
                   shot_calls, files, SCREENSHOTS_LIST, workbook, row_count,
                   cells, matched, save_calls, close_attempts, prompts, log>>

\* a driver.get failure that is logged and passed over
NavigationRaises_Swallowed ==
    /\ pc = "loop"
    /\ idx <= Len(keywords)
    /\ CurrentKeyword # <<>>
    /\ nav_log' = Append(nav_log, build_tosshin_url(CurrentKeyword))
    /\ log' = Bump(log, "error")
    /\ idx' = idx + 1
    /\ UNCHANGED <<pc, keywords, entry, exc, origin, driver, quit_calls, page, data,
                   shot_calls, files, SCREENSHOTS_LIST, workbook, row_count,
                   cells, matched, save_calls, close_attempts, prompts>>

\* scrape_keyword_data whose driver.get(url) raises, line 77: nothing in
\* read_keywords catches it
NavigationRaises ==
    /\ pc = "loop"
    /\ idx <= Len(keywords)
    /\ CurrentKeyword # <<>>
    /\ nav_log' = Append(nav_log, build_tosshin_url(CurrentKeyword))
    /\ \E e \in NavFailures : Raise(e, "read_keywords")
    /\ UNCHANGED <<keywords, entry, idx, driver, quit_calls, page, data, shot_calls,
                   files, SCREENSHOTS_LIST, workbook, row_count, cells, matched,
                   save_calls, close_attempts, prompts, log>>

\* scrape_keyword_data interrupted inside fetch_data, line 79: "except
\* Exception" of fetch_data does not catch a KeyboardInterrupt, whether it
\* arrives in a find call (nothing logged yet) or in the logging of line
\* 111 or 139 (the line may have been emitted)
FetchInterrupted ==
    /\ pc = "loop"
    /\ idx <= Len(keywords)
    /\ CurrentKeyword # <<>>
    /\ nav_log' = Append(nav_log, build_tosshin_url(CurrentKeyword))
    /\ page' \in SamplePages
    /\ log' \in {log, FetchLog(page', log)}
    /\ Raise("KeyboardInterrupt", "read_keywords")
    /\ UNCHANGED <<keywords, entry, idx, driver, quit_calls, data, shot_calls,
                   files, SCREENSHOTS_LIST, workbook, row_count, cells, matched,
                   save_calls, close_attempts, prompts>>

\* scrape_keyword_data left after fetch_data returned and before line 83 is
\* done, lines 79-83: by an interrupt before Utils.take_screenshot is called
\* (no capture), or by an exception of the capture or an interrupt before
\* the path is appended (the file may or may not have been written)
ScreenshotRaises ==
    /\ pc = "loop"
    /\ idx <= Len(keywords)
    /\ CurrentKeyword # <<>>
    /\ \E pg \in SamplePages :
         LET kw == CurrentKeyword
             path == screenshot_path(kw)
         IN  /\ nav_log' = Append(nav_log, build_tosshin_url(kw))
             /\ page' = pg
             /\ data' = fetch_data(pg, kw)
             /\ log' = FetchLog(pg, log)
             /\ \/ /\ UNCHANGED <<shot_calls, files>>
                   /\ Raise("KeyboardInterrupt", "read_keywords")
                \/ /\ shot_calls' = Append(shot_calls, path)
                   /\ \E written \in BOOLEAN :
                          files' = take_screenshot(files, path, written)
                   /\ \E e \in ShotFailures : Raise(e, "read_keywords")
    /\ UNCHANGED <<keywords, entry, idx, driver, quit_calls, SCREENSHOTS_LIST,
                   workbook, row_count, cells, matched, save_calls,
                   close_attempts, prompts>>

\* scrape_keyword_data past the capture, lines 75-89: driver.get, fetch_data
\* and take_screenshot return and line 83 is done, then
\*   data is None: the warning of line 89, or an interrupt in it;
\*   data is a record: an interrupt at lines 85-87 before write_data_row is
\*     entered, or write_data_row, which returns, or is left by an
\*     exception: of Utils.write_data (logged at line 173, then re-raised;
\*     an interrupt in that logging replaces it) or a KeyboardInterrupt
\*     (not caught, not logged).
\* The choices that have no effect in a branch are fixed there.
ScrapeKeywordData ==
    /\ pc = "loop"
    /\ idx <= Len(keywords)
    /\ CurrentKeyword # <<>>
    /\ \E pg \in SamplePages, shot \in ShotOutcomes, entered \in BOOLEAN,
          stop \in WriteStops, e \in WriteFailures :
         LET kw == CurrentKeyword
             url == build_tosshin_url(kw)
             d == fetch_data(pg, kw)
             path == screenshot_path(kw)
             lg == FetchLog(pg, log)
             w == WriteIfData(cells, row_count, d, url, stop)
         IN  /\ nav_log' = Append(nav_log, url)
             /\ page' = pg
             /\ data' = d
             /\ shot_calls' = Append(shot_calls, path)
             /\ files' = take_screenshot(files, path, shot.written)
             /\ SCREENSHOTS_LIST' =
                    IF shot.result THEN Append(SCREENSHOTS_LIST, path)
                    ELSE SCREENSHOTS_LIST
             /\ IF d = None
                THEN /\ entered
                     /\ stop = 0
                     /\ e = "KeyboardInterrupt"
                     /\ cells' = w.cells
                     /\ row_count' = w.row_count
                     /\ matched' = matched
                     /\ \/ /\ log' = Bump(lg, "warning")
                           /\ idx' = idx + 1
                           /\ UNCHANGED <<pc, exc, origin>>
                        \/ /\ log' \in CutLog(lg, "warning")
                           /\ idx' = idx
                           /\ Raise("KeyboardInterrupt", "read_keywords")
                ELSE IF ~entered
                THEN /\ stop = 0
                     /\ e = "KeyboardInterrupt"
                     /\ UNCHANGED <<cells, row_count, matched, idx>>
                     /\ log' = lg
                     /\ Raise("KeyboardInterrupt", "read_keywords")
                ELSE /\ cells' = w.cells
                     /\ row_count' = w.row_count
                     /\ matched' = Append(matched, kw)
                     /\ IF ~w.raised
                        THEN /\ e = "KeyboardInterrupt"
                             /\ log' = lg
                             /\ idx' = idx + 1
                             /\ UNCHANGED <<pc, exc, origin>>
                        ELSE /\ stop > Len(fields_to_write) + 1 => e = "KeyboardInterrupt"
                             /\ log' \in IF IsException(e) THEN {Bump(lg, "error")}
                                         ELSE IF stop <= Len(fields_to_write) + 1
                                         THEN CutLog(lg, "error")
                                         ELSE {lg}
                             /\ idx' = idx
                             /\ Raise(e, "read_keywords")
    /\ UNCHANGED <<keywords, entry, driver, quit_calls, workbook, save_calls,
                   close_attempts, prompts>>

\* the loop is over, line 54: save_workbook is called and runs its logging
\* and worksheet.autofit() (lines 104-105), which can raise before any close
\* attempt; an interrupt can also arrive before the call is made
SaveWorkbook ==
    /\ pc = "loop"
    /\ idx > Len(keywords)
    /\ \/ /\ save_calls' = save_calls + 1
          /\ pc' = "close"
          /\ UNCHANGED <<exc, origin>>
       \/ /\ save_calls' = save_calls + 1
          /\ \E e \in SaveFailures : Raise(e, "read_keywords")
       \/ /\ save_calls' = save_calls
          /\ Raise("KeyboardInterrupt", "read_keywords")
    /\ UNCHANGED <<keywords, entry, idx, driver, quit_calls, nav_log, page, data,
                   shot_calls, files, SCREENSHOTS_LIST, workbook, row_count,
                   cells, matched, close_attempts, prompts, log>>

\* workbook.close() succeeds, lines 108-110: save_workbook and read_keywords
\* return and scrape logs line 32. An interrupt after the close (in the
\* logging of line 109, or of line 32) leaves the workbook saved.
CloseSucceeds ==
    /\ pc = "close"
    /\ close_attempts' = close_attempts + 1
    /\ workbook' = "closed"
    /\ \/ /\ pc' = "finally"
          /\ UNCHANGED <<exc, origin>>
       \/ Raise("KeyboardInterrupt", "read_keywords")
       \/ Raise("KeyboardInterrupt", "scrape")
    /\ UNCHANGED <<keywords, entry, idx, driver, quit_calls, nav_log, page, data,
                   shot_calls, files, SCREENSHOTS_LIST, row_count, cells,
                   matched, save_calls, prompts, log>>

\* workbook.close() raises an OSError or another Exception, lines 111-126:
\* the except clause logs it and reaches input(); an interrupt in that
\* logging leaves save_workbook
CloseFails ==
    /\ pc = "close"
    /\ prompts < MaxSaveFails
    /\ close_attempts' = close_attempts + 1
    /\ \/ /\ exc' \in CloseFailures
          /\ origin' = origin
          /\ log' = Bump(log, "error")
          /\ pc' = "prompt"
       \/ /\ log' \in CutLog(log, "error")
          /\ Raise("KeyboardInterrupt", "read_keywords")
    /\ UNCHANGED <<keywords, entry, idx, driver, quit_calls, nav_log, page, data,
                   shot_calls, files, SCREENSHOTS_LIST, workbook, row_count,
                   cells, matched, save_calls, prompts>>

\* the close loop is interrupted, at its "while True" (line 106, no close
\* attempt made) or inside workbook.close(): neither except clause of
\* save_workbook catches a KeyboardInterrupt, so nothing is logged and
\* nothing prompted
CloseInterrupted ==
    /\ pc = "close"
    /\ close_attempts' \in {close_attempts, close_attempts + 1}
    /\ Raise("KeyboardInterrupt", "read_keywords")
    /\ UNCHANGED <<keywords, entry, idx, driver, quit_calls, nav_log, page, data,
                   shot_calls, files, SCREENSHOTS_LIST, workbook, row_count,
                   cells, matched, save_calls, prompts, log>>

\* a retry loop that gives up after the prompt
PromptReturns_GiveUp ==
    /\ pc = "prompt"
    /\ prompts' = prompts + 1
    /\ exc' = "none"
    /\ pc' = "finally"
    /\ UNCHANGED <<keywords, entry, idx, driver, quit_calls, origin, nav_log, page,
                   data, shot_calls, files, SCREENSHOTS_LIST, workbook, row_count,
                   cells, matched, save_calls, close_attempts, log>>

\* input() returns: the caught exception is dropped and the while loop goes
\* round
PromptReturns ==
    /\ pc = "prompt"
    /\ prompts' = prompts + 1
    /\ exc' = "none"
    /\ pc' = "close"
    /\ UNCHANGED <<keywords, entry, idx, driver, quit_calls, origin, nav_log, page,
                   data, shot_calls, files, SCREENSHOTS_LIST, workbook, row_count,
                   cells, matched, save_calls, close_attempts, log>>

\* input() raises: the exception leaves save_workbook and read_keywords;
\* "except Exception" of scrape catches EOFError, not KeyboardInterrupt
PromptRaises ==
    /\ pc = "prompt"
    /\ \E e \in PromptFailures : Raise(e, "read_keywords")
    /\ UNCHANGED <<keywords, entry, idx, driver, quit_calls, nav_log, page, data,
                   shot_calls, files, SCREENSHOTS_LIST, workbook, row_count,
                   cells, matched, save_calls, close_attempts, prompts, log>>

\* an except clause that ends scrape without reaching driver.quit()
ScrapeExcept_NoQuit ==
    /\ pc = "except"
    /\ log' = Bump(log, "error")
    /\ exc' = "none"
    /\ pc' = "done"
    /\ UNCHANGED <<keywords, entry, idx, driver, quit_calls, origin, nav_log, page,
                   data, shot_calls, files, SCREENSHOTS_LIST, workbook, row_count,
                   cells, matched, save_calls, close_attempts, prompts>>

\* the except clause of scrape, lines 34-35: the exception is logged and
\* dropped; an interrupt in that logging replaces it. Either way the finally
\* clause follows.
ScrapeExcept ==
    /\ pc = "except"
    /\ \/ /\ log' = Bump(log, "error")
          /\ exc' = "none"
          /\ origin' = origin
          /\ pc' = "finally"
       \/ /\ log' \in CutLog(log, "error")
          /\ exc' = "KeyboardInterrupt"
          /\ origin' = "scrape"
          /\ pc' = "finally"
    /\ UNCHANGED <<keywords, entry, idx, driver, quit_calls, nav_log, page, data,
                   shot_calls, files, SCREENSHOTS_LIST, workbook, row_count,
                   cells, matched, save_calls, close_attempts, prompts>>

\* the finally clause of scrape, lines 37-50, after which scrape is left:
\*   an interrupt in the logging of line 39 skips driver.quit();
\*   driver.quit() returns and the closing lines are logged: an exception in
\*     flight goes on out of scrape, else scrape returns;
\*   driver.quit() returns and the closing logging is interrupted;
\*   driver.quit() raises, with the browser closed or not.
ScrapeFinally ==
    /\ pc = "finally"
    /\ pc' = "done"
    /\ \/ /\ exc' = "KeyboardInterrupt"
          /\ origin' = "scrape"
          /\ UNCHANGED <<driver, quit_calls>>
       \/ /\ driver' = "quit"
          /\ quit_calls' = quit_calls + 1
          /\ UNCHANGED <<exc, origin>>
       \/ /\ driver' = "quit"
          /\ quit_calls' = quit_calls + 1
          /\ exc' = "KeyboardInterrupt"
          /\ origin' = "scrape"
       \/ /\ driver' \in {"live", "quit"}
          /\ quit_calls' = quit_calls + 1
          /\ exc' \in QuitFailures
          /\ origin' = "scrape"
    /\ UNCHANGED <<keywords, entry, idx, nav_log, page, data, shot_calls, files,
                   SCREENSHOTS_LIST, workbook, row_count, cells, matched,
                   save_calls, close_attempts, prompts, log>>

Next ==
    \/ InitializeDriver
    \/ ReadKeywordsEmpty
    \/ ReadKeywordsBegin
    \/ SkipEmpty
    \/ KeywordInterrupted
    \/ NavigationRaises
    \/ FetchInterrupted
    \/ ScreenshotRaises
    \/ ScrapeKeywordData
    \/ SaveWorkbook
    \/ CloseSucceeds
    \/ CloseFails
    \/ CloseInterrupted
    \/ PromptReturns
    \/ PromptRaises
    \/ ScrapeExcept
    \/ ScrapeFinally

Spec == Init /\ [][Next]_vars

----------------------------------------------------------------------------
(* fetch_data alone, on every well-formed page whose maker cell is a text   *)
(* of at most MaxTextLen characters                                        *)

TextInit ==
    /\ pc = "fetch_data"
    /\ keywords = <<<<"a">>>>
    /\ entry = [shots |-> <<>>, files |-> {}]
    /\ idx = 1
    /\ driver = "live"
    /\ quit_calls = 0
    /\ exc = "none"
    /\ origin = "none"
    /\ nav_log = <<build_tosshin_url(<<"a">>)>>
    /\ page \in TextPages
    /\ data = None
    /\ shot_calls = <<>>
    /\ files = {}
    /\ SCREENSHOTS_LIST = <<>>
    /\ workbook = "open"
    /\ row_count = NewWorkbook[2]
    /\ cells = NewWorkbook[1]
    /\ matched = <<>>
    /\ save_calls = 0
    /\ close_attempts = 0
    /\ prompts = 0
    /\ log = [warning |-> 0, error |-> 0]

FetchData ==
    /\ pc = "fetch_data"
    /\ data' = fetch_data(page, CurrentKeyword)
    /\ log' = FetchLog(page, log)
    /\ pc' = "fetched"
    /\ UNCHANGED <<keywords, entry, idx, driver, quit_calls, exc, origin, nav_log,
                   page, shot_calls, files, SCREENSHOTS_LIST, workbook, row_count,
                   cells, matched, save_calls, close_attempts, prompts>>

\* fetch_data interrupted: the KeyboardInterrupt leaves it
FetchDataInterrupted ==
    /\ pc = "fetch_data"
    /\ exc' = "KeyboardInterrupt"
    /\ origin' = "fetch_data"
    /\ pc' = "interrupted"
    /\ UNCHANGED <<keywords, entry, idx, driver, quit_calls, nav_log, page, data,
                   shot_calls, files, SCREENSHOTS_LIST, workbook, row_count,
                   cells, matched, save_calls, close_attempts, prompts, log>>

TextNext ==
    \/ FetchData
    \/ FetchDataInterrupted

TextSpec == TextInit /\ [][TextNext]_vars

----------------------------------------------------------------------------
(* Properties *)

\* the keywords of l that read_keywords processes: stripped and not empty
Processed(l) ==
    SelectSeq([i \in 1..Len(l) |-> strip(l[i])], LAMBDA k : k # <<>>)

Range(f) == {f[i] : i \in DOMAIN f}

\* the first n entries of l
Prefix(l, n) == IF n <= 0 THEN <<>> ELSE SubSeq(l, 1, IF n < Len(l) THEN n ELSE Len(l))

\* read_keywords was left with the workbook built and save_workbook not called
LoopLeft ==
    workbook = "open" /\ save_calls = 0 /\ pc \in {"except", "finally", "done"}

\* the exceptions of read_keywords that "except Exception" of scrape catches
Caught ==
    {"WorkbookError", "FolderError", "WebDriverException", "ScreenshotError",
     "WriteError", "AutofitError", "EOFError"}

\* worksheet rows below the header with a cell in each of the four columns
CompleteRows ==
    {r \in 1..(Len(keywords) + 1) : \A c \in 0..3 : <<r, c>> \in DOMAIN cells}

\* the paths appended to SCREENSHOTS_LIST since scrape was entered
NewShots ==
    SubSeq(SCREENSHOTS_LIST, Len(entry.shots) + 1, Len(SCREENSHOTS_LIST))

\* C1: in a scrape_keyword_data call that reaches the capture on a page that
\* carries the "nothing found" marker or makes an extraction step raise,
\* fetch_data returns None, no row is appended (row_count is unchanged) and
\* no cell, so no URL, is written; the extraction failure is not propagated
\* (what can still leave the call is an exception of the capture or a
\* KeyboardInterrupt), and a call that raises nothing is followed by the
\* next keyword. No step of the loop writes a cell unless fetch_data
\* returned a record.
C1_NoResultNoRow ==
    /\ [][(shot_calls' # shot_calls /\ (page'.nothing \/ ExtractionFails(page')))
            => /\ data' = None
               /\ row_count' = row_count
               /\ cells' = cells
               /\ matched' = matched
               /\ exc' \in {"none"} \cup ShotFailures
               /\ exc' = "none" => (pc' = "loop" /\ idx' = idx + 1)]_vars
    /\ [][(pc = "loop" /\ (cells' # cells \/ row_count' # row_count))
            => /\ data' # None
               /\ ~page'.nothing
               /\ ~ExtractionFails(page')]_vars

\* a first keyword without result was passed over and the second one matched
C1_Witness ==
    /\ pc = "loop"
    /\ Len(shot_calls) = 2
    /\ Len(matched) = 1
    /\ matched[1] = strip(keywords[2])
    /\ row_count = 2
    /\ log.error >= 1

\* C2 as stated: when a step of one keyword's processing fails and scrape
\* returns, every non-empty keyword of the list has been processed and the
\* workbook has been saved.
C2_Original ==
    (pc = "done" /\ exc = "none" /\ idx \in 1..Len(keywords))
        => (workbook = "closed" /\ Len(nav_log) = Len(Processed(keywords)))

\* where the loop stands, and what is in flight where
C2_Loop ==
    /\ pc = "loop"
           => /\ exc = "none"
              /\ Len(nav_log) = Len(Processed(Prefix(keywords, idx - 1)))
              /\ Len(shot_calls) = Len(nav_log)
    /\ LoopLeft
           => /\ idx <= Len(keywords) + 1
              /\ Len(nav_log) \in {Len(Processed(Prefix(keywords, idx - 1))),
                                   Len(Processed(Prefix(keywords, idx)))}
    /\ save_calls = 1
           => /\ idx = Len(keywords) + 1
              /\ Len(nav_log) = Len(Processed(keywords))
    /\ workbook = "closed" => save_calls = 1
    /\ pc = "except" <=> exc \in Caught

\* C2 amended: only extraction failures and a capture reported as False are
\* absorbed per keyword: an iteration that raises nothing is followed by the
\* next entry, and behind the last one by save_workbook. Any exception that
\* leaves an iteration (of driver.get, take_screenshot or write_data_row,
\* or a KeyboardInterrupt at any statement) leaves read_keywords: no later
\* keyword is processed and save_workbook is not called. An exception of
\* class Exception is then logged by the except clause of scrape, unless
\* that logging is interrupted; a KeyboardInterrupt skips the clause.
C2_Amended ==
    /\ []C2_Loop
    /\ [][(pc = "loop" /\ idx <= Len(keywords))
            => \/ /\ exc' = "none"
                  /\ pc' = "loop"
                  /\ idx' = idx + 1
               \/ /\ exc' # "none"
                  /\ pc' = Handler(exc')
                  /\ idx' = idx
                  /\ save_calls' = 0]_vars
    /\ [][(pc \in {"close", "prompt", "except", "finally"})
            => (UNCHANGED <<idx, nav_log, shot_calls, save_calls>>)]_vars
    /\ [][pc = "except"
            => /\ pc' = "finally"
               /\ \/ (exc' = "none" /\ log'.error = log.error + 1)
                  \/ exc' = "KeyboardInterrupt"]_vars

\* a run that ended after a caught exception, with a later keyword never
\* processed
C2_Witness ==
    /\ pc = "done"
    /\ exc = "none"
    /\ workbook = "open"
    /\ save_calls = 0
    /\ idx < Len(keywords)
    /\ strip(keywords[idx + 1]) # <<>>
    /\ Len(nav_log) = 1
    /\ log.error >= 1

\* C3 as stated: after a run that started without screenshots and in which
\* every capture succeeded, the number of screenshot files equals the number
\* of processed keywords.
C3_Original ==
    (/\ pc = "done"
     /\ workbook = "closed"
     /\ entry.shots = <<>>
     /\ entry.files = {}
     /\ Len(SCREENSHOTS_LIST) = Len(nav_log))
        => Cardinality(files) = Len(nav_log)

\* C3 amended: every processed keyword whose scrape_keyword_data call reaches
\* the capture gets exactly one, whether fetch_data returned a record or
\* None, at os.path.join(folder, "<keyword> screenshot.png") with the
\* stripped keyword (a name that starts with "/" replaces the folder). A
\* capture adds at most the file at its path, and does when it reports
\* success, so the run adds one file per distinct path captured: at most
\* one per processed keyword, and fewer when a keyword repeats.
C3_Amended ==
    /\ Len(shot_calls) <= Len(nav_log)
    /\ Len(nav_log) <= Len(shot_calls) + 1
    /\ pc = "loop" => Len(shot_calls) = Len(Processed(Prefix(keywords, idx - 1)))
    /\ save_calls = 1 => Len(shot_calls) = Len(Processed(keywords))
    /\ LET done == Processed(keywords) IN
       \A i \in 1..Len(shot_calls) :
           shot_calls[i] = IF done[i][1] = "/"
                           THEN done[i] \o <<" screenshot.png">>
                           ELSE <<"Tosshin Screenshots", "/">> \o done[i]
                                    \o <<" screenshot.png">>
    /\ Len(NewShots) <= Len(shot_calls)
    /\ entry.files \cup Range(NewShots) \subseteq files
    /\ files \subseteq entry.files \cup Range(shot_calls)
    /\ Len(NewShots) = Len(shot_calls) => files = entry.files \cup Range(shot_calls)

\* two captures in a fresh folder, one for a keyword without result and one
\* for a match
C3_Witness ==
    /\ entry.files = {}
    /\ Len(shot_calls) = 2
    /\ Len(matched) = 1
    /\ Cardinality(files) = 2

\* empty, or whitespace only
IsBlank(s) == \A i \in 1..Len(s) : s[i] \in Whitespace

\* C4: a loop iteration on an entry that is empty or whitespace-only leaves
\* no trace: no navigation, no capture, no file, no cell, no row, so the row
\* count and the screenshot files are what they would be without the entry;
\* unless it is interrupted, the loop moves on to the next entry.
C4_BlankSkipped ==
    [][(pc = "loop" /\ idx <= Len(keywords) /\ IsBlank(keywords[idx]))
        => /\ UNCHANGED <<nav_log, page, data, shot_calls, files,
                          SCREENSHOTS_LIST, cells, row_count, matched>>
           /\ exc' \in {"none", "KeyboardInterrupt"}
           /\ exc' = "none" => (pc' = "loop" /\ idx' = idx + 1)]_vars

\* a whitespace-only entry was passed over and left no trace
C4_Witness ==
    /\ pc = "loop"
    /\ idx = 2
    /\ keywords[1] = <<"\n", " ">>
    /\ nav_log = <<>>
    /\ files = entry.files
    /\ row_count = 1

\* C5 as stated: row_count always equals 1 plus the number of keywords whose
\* record was written.
C5_Original ==
    workbook # "none" => row_count = 1 + Cardinality(CompleteRows)

\* C5 amended: after N keywords that all matched and were written, row_count
\* is N + 1. In every state row_count is 1 plus the number of write_data_row
\* calls that reached line 170: the rows below row_count are complete, one
\* per such call; a call left by an exception before line 170 leaves
\* row_count unchanged with none, some or all of the cells of row row_count
\* written.
C5_Amended ==
    workbook # "none"
        => /\ row_count >= 1
           /\ 1..(row_count - 1) \subseteq CompleteRows
           /\ \A p \in DOMAIN cells : p[1] <= row_count
           /\ row_count - 1 \in {Len(matched), Len(matched) - 1}
           /\ (pc = "loop" \/ save_calls = 1) => row_count = Len(matched) + 1
           /\ (\E c \in 0..3 : <<row_count, c>> \in DOMAIN cells)
                  => (LoopLeft /\ row_count = Len(matched))
           /\ (save_calls = 1 /\ Len(matched) = Len(keywords))
                  => row_count = Len(keywords) + 1

\* two keywords, both matched and written
C5_Witness ==
    /\ workbook = "closed"
    /\ Len(keywords) = 2
    /\ Len(matched) = 2
    /\ row_count = 3

\* C6: as soon as the workbook exists the header row is at row 0 and
\* row_count is at least 1, and before that there is no cell at all; every
\* cell of row 0 is a header cell, so no data cell is ever at row 0; every
\* data cell, of a complete row or of one cut short, is at column 0..3 and
\* holds the maker at 0, the keyword at 1, the weight at 2, the price at 3.
C6_HeaderFirst ==
    /\ workbook = "none" => (cells = NoCells /\ row_count = 0)
    /\ workbook # "none"
        => /\ row_count >= 1
           /\ <<0, 0>> \in DOMAIN cells /\ cells[<<0, 0>>] = [header |-> "Maker"]
           /\ <<0, 1>> \in DOMAIN cells /\ cells[<<0, 1>>] = [header |-> "Keyword"]
           /\ <<0, 2>> \in DOMAIN cells /\ cells[<<0, 2>>] = [header |-> "Weight"]
           /\ <<0, 3>> \in DOMAIN cells /\ cells[<<0, 3>>] = [header |-> "Price"]
           /\ \A p \in DOMAIN cells :
                  IF p[1] = 0
                  THEN DOMAIN cells[p] = {"header"}
                  ELSE /\ p[1] \in 1..Len(matched)
                       /\ DOMAIN cells[p] = {"value", "url", "currency"}
                       /\ p[2] \in 0..3
                       /\ p[2] = 0 =>
                              /\ cells[p].value = <<"a", " ", "b">>
                              /\ cells[p].url = <<"tosshin?q=">> \o matched[p[1]]
                       /\ p[2] = 1 => cells[p].value = matched[p[1]]
                       /\ p[2] = 2 => cells[p].value = <<"2", "k", "g">>
                       /\ p[2] = 3 => cells[p].value = <<"9", "0">>
                       /\ cells[p].currency <=> p[2] = 3
                       /\ p[2] # 0 => cells[p].url = NoUrl

\* a data row below the header
C6_Witness ==
    /\ row_count = 2
    /\ <<1, 3>> \in DOMAIN cells
    /\ <<0, 0>> \in DOMAIN cells

\* C7 as stated: a run on a non-empty list that entered the loop and from
\* which scrape returns has called save_workbook exactly once.
C7_Original ==
    (pc = "done" /\ exc = "none" /\ idx >= 1) => save_calls = 1

\* the k-th matched keyword is at row k; save_workbook is called at most
\* once, behind the last entry
C7_Order ==
    /\ \A k \in 1..Len(matched) :
           <<k, 1>> \in DOMAIN cells => cells[<<k, 1>>].value = matched[k]
    /\ \A k \in 1..(row_count - 1) :
           /\ k <= Len(matched)
           /\ <<k, 1>> \in DOMAIN cells
    /\ save_calls <= 1
    /\ save_calls = 1 => (idx = Len(keywords) + 1 /\ pc # "loop")
    /\ pc \in {"close", "prompt"} => save_calls = 1

\* C7 amended: the k-th keyword handed to write_data_row, in list order, is
\* written at worksheet row k. save_workbook is invoked at most once: exactly
\* once, behind the last entry, when no exception leaves the loop, and not at
\* all when one does (an exception of driver.get, take_screenshot or
\* write_data_row, or a KeyboardInterrupt), or when the workbook or the
\* screenshot folder cannot be created. No cell is written and row_count
\* does not change once save_workbook has been called.
C7_Amended ==
    /\ []C7_Order
    /\ [][(pc = "loop" /\ idx > Len(keywords) /\ exc' = "none")
            => (save_calls' = 1 /\ pc' = "close")]_vars
    /\ [][(pc = "loop" /\ pc' # "loop" /\ save_calls' = 0) => exc' # "none"]_vars
    /\ [][save_calls' # save_calls => (pc = "loop" /\ idx > Len(keywords))]_vars
    /\ [][save_calls >= 1 => (UNCHANGED <<cells, row_count, matched>>)]_vars

\* two matched keywords in list order, saved
C7_Witness ==
    /\ workbook = "closed"
    /\ save_calls = 1
    /\ matched = <<<<"/", "a">>, <<"a">>>>
    /\ cells[<<1, 1>>].value = <<"/", "a">>
    /\ cells[<<2, 1>>].value = <<"a">>

\* C8 as stated: once a close attempt has failed and the prompt is up, what
\* follows is another close attempt.
C8_Original ==
    [][pc = "prompt" => pc' = "close"]_vars

\* close attempts and prompts alternate; a failure of close() is in flight
\* only at the prompt
C8_Retry ==
    /\ prompts <= close_attempts
    /\ close_attempts <= prompts + 1
    /\ pc = "close" => (close_attempts = prompts /\ workbook = "open" /\ exc = "none")
    /\ pc = "prompt"
           => /\ close_attempts = prompts + 1
              /\ exc \in CloseFailures
              /\ workbook = "open"
    /\ workbook = "closed" => close_attempts = prompts + 1
    /\ exc \in CloseFailures => pc = "prompt"
    /\ close_attempts >= 1 => save_calls = 1

\* C8 amended: every close attempt that fails with an OSError or another
\* Exception is logged and followed by one prompt, unless that logging is
\* interrupted; a prompt that returns is followed by another close attempt,
\* unless an interrupt arrives first. save_workbook returns only after a
\* close attempt has succeeded and never propagates an exception of
\* workbook.close(). It does propagate an exception of worksheet.autofit()
\* (before any close attempt), an EOFError of input(), and a
\* KeyboardInterrupt at any of its statements, among them input() and the
\* logging that follows a successful close.
C8_Amended ==
    /\ []C8_Retry
    /\ [][(pc = "close" /\ pc' = "prompt")
            => /\ log'.error = log.error + 1
               /\ close_attempts' = close_attempts + 1
               /\ prompts' = prompts]_vars
    /\ [][(pc = "close" /\ close_attempts' # close_attempts /\ workbook' = "open")
            => \/ pc' = "prompt"
               \/ exc' = "KeyboardInterrupt"]_vars
    /\ [][(pc = "prompt" /\ exc' = "none")
            => /\ pc' = "close"
               /\ prompts' = prompts + 1
               /\ close_attempts' = close_attempts]_vars
    /\ [][(pc = "prompt" /\ exc' # "none")
            => /\ exc' \in PromptFailures
               /\ pc' = Handler(exc')
               /\ (UNCHANGED <<prompts, close_attempts, workbook>>)]_vars
    /\ [][(pc \in {"close", "prompt"} /\ pc' \notin {"close", "prompt"})
            => \/ workbook' = "closed" /\ exc' \in {"none", "KeyboardInterrupt"}
               \/ workbook' = "open" /\ exc' \in PromptFailures]_vars
    /\ [][(pc = "loop" /\ save_calls' # save_calls)
            => \/ pc' = "close" /\ exc' = "none"
               \/ exc' \in SaveFailures /\ pc' = Handler(exc')]_vars

\* saved at the third attempt, after two logged failures and two prompts
C8_Witness ==
    /\ workbook = "closed"
    /\ close_attempts = 3
    /\ prompts = 2
    /\ log.error >= 2

\* the maximal runs of non-whitespace of s, read off the positions of s
WordStarts(s) ==
    {i \in 1..Len(s) : s[i] \notin Whitespace /\ (i = 1 \/ s[i - 1] \in Whitespace)}

WordFrom(s, i) ==
    LET j == CHOOSE e \in i..Len(s) :
                 /\ \A x \in i..e : s[x] \notin Whitespace
                 /\ (e = Len(s) \/ s[e + 1] \in Whitespace)
    IN  SubSeq(s, i, j)

Tokens(s) ==
    LET starts == WordStarts(s)
        nth(k) == CHOOSE i \in starts : Cardinality({j \in starts : j < i}) = k - 1
    IN  [k \in 1..Cardinality(starts) |-> WordFrom(s, nth(k))]

\* C9: the maker fetch_data returns for a well-formed table has no leading
\* or trailing whitespace, no two adjacent whitespace characters, only
\* single spaces between tokens, and the tokens of the cell text, in order.
C9_MakerCollapsed ==
    pc = "fetched"
        => LET m == data.MAKER
               t == page.tds[2]
           IN  /\ data # None
               /\ m # <<>> => (m[1] \notin Whitespace /\ m[Len(m)] \notin Whitespace)
               /\ \A i \in 1..(Len(m) - 1) :
                      ~(m[i] \in Whitespace /\ m[i + 1] \in Whitespace)
               /\ \A i \in 1..Len(m) : m[i] \in Whitespace => m[i] = " "
               /\ Tokens(m) = Tokens(t)

\* a cell text with a newline and an ideographic space between two tokens
C9_Witness ==
    /\ pc = "fetched"
    /\ page.tds[2] = <<"a", "\n", "U+3000", "b">>
    /\ data.MAKER = <<"a", " ", "b">>

\* C10 as stated, in its last part: when scrape is left, no exception raised
\* in read_keywords is in flight.
C10_Original ==
    (pc = "done" /\ origin = "read_keywords") => exc = "none"

\* driver.quit is called at most once, as the last thing scrape does
C10_Quit ==
    /\ quit_calls <= 1
    /\ quit_calls = 1 => pc = "done"
    /\ driver = "quit" => quit_calls = 1
    /\ driver = "none" => (quit_calls = 0 /\ pc \in {"scrape", "done"})
    /\ (pc = "done" /\ exc = "none") => (quit_calls = 1 /\ driver = "quit")
    /\ (pc = "done" /\ quit_calls = 0 /\ driver # "none")
           => (exc = "KeyboardInterrupt" /\ origin = "scrape")
    /\ (pc = "done" /\ exc # "none" /\ origin = "read_keywords")
           => (exc = "KeyboardInterrupt" /\ quit_calls = 1)
    /\ exc \in Caught <=> pc = "except"

\* C10 amended: driver.quit is called at most once, in the finally clause,
\* after read_keywords has returned (the early return on an empty list
\* included) or raised, and scrape never returns normally without it. It is
\* skipped only when a KeyboardInterrupt arrives in scrape itself before
\* line 40: between initialize_driver and the try block, or in the logging
\* of line 39. An exception of class Exception raised in read_keywords is
\* caught and does not leave scrape; a KeyboardInterrupt raised in
\* read_keywords does leave it, after driver.quit.
C10_Amended ==
    /\ []C10_Quit
    /\ [][quit_calls' # quit_calls
            => (pc = "finally" /\ quit_calls' = quit_calls + 1)]_vars
    /\ [][pc = "finally"
            => /\ pc' = "done"
               /\ \/ quit_calls' = quit_calls + 1
                  \/ exc' = "KeyboardInterrupt" /\ origin' = "scrape"]_vars
    /\ [][(pc = "finally" /\ exc = "KeyboardInterrupt" /\ origin = "read_keywords"
             /\ origin' = "read_keywords")
            => (exc' = exc /\ quit_calls' = 1)]_vars
    /\ [][pc = "except" => pc' = "finally"]_vars

\* scrape returned after an exception of read_keywords was caught, with the
\* driver quit
C10_Witness ==
    /\ pc = "done"
    /\ quit_calls = 1
    /\ workbook = "open"
    /\ exc = "none"
    /\ log.error >= 1

====
